---- MODULE Spec2Model ----
(***************************************************************************)
(* Model of generate_waveform.py: the command line entry (main), the       *)
(* acquisition of the audio track (download_audio) and the waveform        *)
(* renderer (generate_waveform).                                           *)
(*                                                                         *)
(* Strings (URLs, paths, identifiers) are sequences of tokens; a token is  *)
(* a run of characters that the program never looks inside ("youtu.be",    *)
(* "a", ".wav") or a separator ("/", "?", "&", "=").  Substring tests,     *)
(* splitting and joining are computed on the token sequences.              *)
(*                                                                         *)
(* A float is a record [num, den]: the reduced fraction num/den when       *)
(* den > 0; den = 0 is a non-finite value (num = 0 is NaN, num = 1 or -1   *)
(* is +inf or -inf), which is what numpy's division yields for a zero      *)
(* divisor.                                                                *)
(***************************************************************************)
EXTENDS Integers, Sequences, FiniteSets, TLC

(***************************************************************************)
(* Bounds of the model and constants of the program                        *)
(***************************************************************************)
MaxLen == 7            \* longest exhaustively enumerated audio buffer
MaxT == 3              \* largest enumerated num_lines (besides the default)
MaxRuns == 2           \* runs of main in one behaviour

DefaultNumLines == 600 \* generate_waveform(..., num_lines=600, ...)
DefaultTotalWidth == 10 \* generate_waveform(..., total_width=10)

Samples == {-2, 0, 1}
ExampleLens == {10, 2400}

VARIABLES
    pc,              \* position in main / download_audio / generate_waveform
    err,             \* the exception that ended the run ("none" if none)
    run,             \* number of the current run of main
    argv,            \* sys.argv[1:], a sequence of URLs
    video_id,        \* main: video_id
    audio,           \* file system: audio files, path -> decoded samples
    dirs,            \* file system: directories
    thumbs,          \* file system: thumbnail files
    images,          \* file system: image files, path -> bars drawn and their spacing
    fs0,             \* the file system when the current run started
    startHad,        \* did <video_id>.wav exist when the current run started
    dlCalls,         \* subprocess.run calls made by the current run
    dlWrote,         \* path the downloader wrote the audio to (<<>> if none)
    dlReturn,        \* output_path returned by download_audio (<<>> if none)
    gwCalls,         \* generate_waveform calls made by the current run
    audio_file,      \* generate_waveform: audio_file
    output_image_prefix, \* generate_waveform: output_image_prefix
    num_lines,       \* generate_waveform: num_lines
    y,               \* generate_waveform: y
    step,            \* generate_waveform: step
    y_downsampled,   \* generate_waveform: y_downsampled
    y_normalized,    \* generate_waveform: y_normalized
    quarters,        \* generate_waveform: quarters
    i,               \* generate_waveform: loop index of the enumerate
    written          \* image paths saved by this call, in order

mainVars == <<run, argv, video_id, fs0, startHad, dlCalls, dlWrote, dlReturn, gwCalls>>
fsVars == <<audio, dirs, thumbs, images>>
gwVars == <<audio_file, output_image_prefix, num_lines, y, step, y_downsampled,
            y_normalized, quarters, i, written>>
vars == <<pc, err, mainVars, fsVars, gwVars>>

(***************************************************************************)
(* Arithmetic                                                              *)
(***************************************************************************)
Abs(x) == IF x < 0 THEN -x ELSE x

Max(a, b) == IF a >= b THEN a ELSE b

RECURSIVE Gcd(_, _)
Gcd(a, b) == IF b = 0 THEN a ELSE Gcd(b, a % b)

NaN == [num |-> 0, den |-> 0]

\* numpy true division v / m of two finite values
FDiv(v, m) ==
    IF m = 0
    THEN [num |-> (IF v > 0 THEN 1 ELSE IF v < 0 THEN -1 ELSE 0), den |-> 0]
    ELSE LET g == Gcd(Abs(v), Abs(m))
             s == IF m < 0 THEN -1 ELSE 1
         IN [num |-> s * (v \div g), den |-> s * (m \div g)]

IsFinite(f) == f.den > 0

FAbs(f) == [num |-> Abs(f.num), den |-> f.den]

One == [num |-> 1, den |-> 1]

\* |f| <= 1 as a float comparison: false for NaN
AbsLeqOne(f) == IsFinite(f) /\ Abs(f.num) <= f.den

(***************************************************************************)
(* generate_waveform: the computations of lines 76-89                      *)
(***************************************************************************)
\* mutant: the stride is rounded up instead of down
StepCeil(n, T) == Max(1, (n + T - 1) \div T)

\* step = max(1, len(y) // num_lines)
Step(n, T) == Max(1, n \div T)

\* y[::step]: elements at the 0-based indices 0, step, 2*step, ... below len(y)
SliceStep(s, k) ==
    [j \in 1..(IF Len(s) = 0 THEN 0 ELSE ((Len(s) - 1) \div k) + 1) |-> s[(j - 1) * k + 1]]

\* the largest element of a non-empty sequence
MaxOf(s) == CHOOSE m \in {s[j] : j \in 1..Len(s)} : \A j \in 1..Len(s) : s[j] <= m

\* mutant: the maximum is taken without the absolute value
MaxAbsSigned(s) == MaxOf(s)

\* np.max(np.abs(s)), s non-empty
MaxAbs(s) == MaxOf([j \in 1..Len(s) |-> Abs(s[j])])

\* y_downsampled / np.max(np.abs(y_downsampled))
Normalize(s) == LET m == MaxAbs(s) IN [j \in 1..Len(s) |-> FDiv(s[j], m)]

\* Python slice s[lo:hi] with 0 <= lo, 0 <= hi (0-based, hi exclusive, clipped)
PySlice(s, lo, hi) ==
    LET h == IF hi > Len(s) THEN Len(s) ELSE hi
    IN IF lo >= h THEN <<>> ELSE SubSeq(s, lo + 1, h)

\* mutant: the last slice stops at 4 * quarter_length
QuartersEqual(s) ==
    LET q == Len(s) \div 4
    IN <<PySlice(s, 0, q), PySlice(s, q, 2 * q), PySlice(s, 2 * q, 3 * q),
         PySlice(s, 3 * q, 4 * q)>>

\* quarters = [y[:q], y[q:2q], y[2q:3q], y[3q:]] with q = len(y) // 4
Quarters(s) ==
    LET q == Len(s) \div 4
    IN <<PySlice(s, 0, q), PySlice(s, q, 2 * q), PySlice(s, 2 * q, 3 * q),
         PySlice(s, 3 * q, Len(s))>>

\* line_spacing = total_width / (len(quarter) - 1) raises ZeroDivisionError
\* (a Python float or int division, not a numpy one) exactly when the divisor is 0
LineSpacingRaises(n) == n - 1 = 0

LineSpacing(total_width, n) == FDiv(total_width, n - 1)

(***************************************************************************)
(* Strings as token sequences                                              *)
(***************************************************************************)
\* Python: sub in s
Contains(s, sub) ==
    \E k \in 1..(Len(s) - Len(sub) + 1) : SubSeq(s, k, k + Len(sub) - 1) = sub

\* index of the first token of s that is in toks, 0 when there is none
RECURSIVE FindFrom(_, _, _)
FindFrom(s, toks, k) ==
    IF k > Len(s) THEN 0 ELSE IF s[k] \in toks THEN k ELSE FindFrom(s, toks, k + 1)

Find(s, toks) == FindFrom(s, toks, 1)

\* Python: s.lstrip("/")
RECURSIVE LStripSlash(_)
LStripSlash(s) ==
    IF Len(s) > 0 /\ s[1] = "/" THEN LStripSlash(Tail(s)) ELSE s

\* Python: s.split("&")
RECURSIVE SplitAmp(_)
SplitAmp(s) ==
    LET k == Find(s, {"&"})
    IN IF k = 0 THEN <<s>>
       ELSE <<SubSeq(s, 1, k - 1)>> \o SplitAmp(SubSeq(s, k + 1, Len(s)))

(***************************************************************************)
(* File system                                                             *)
(***************************************************************************)
ExtTokens == {".wav", ".webp", ".png", ".%(ext)s"}

\* os.path.join(a, b)
Join(a, b) ==
    IF Len(b) > 0 /\ b[1] = "/" THEN b
    ELSE IF Len(a) = 0 \/ a[Len(a)] = "/" THEN a \o b
    ELSE a \o <<"/">> \o b

\* os.path.splitext(p)[0]: the extension is the last dot-part of the last
\* component, unless the component starts with it
SplitExtRoot(p) ==
    IF Len(p) >= 2 /\ p[Len(p)] \in ExtTokens /\ p[Len(p) - 1] # "/"
    THEN SubSeq(p, 1, Len(p) - 1)
    ELSE p

\* os.path.exists(p)
Exists(p) ==
    \/ p \in DOMAIN audio
    \/ p \in dirs
    \/ p \in thumbs
    \/ p \in DOMAIN images

\* f with f[k] set to v, k added to the domain when it is new
Put(f, k, v) == [x \in (DOMAIN f) \cup {k} |-> IF x = k THEN v ELSE f[x]]

Remove(f, k) == [x \in (DOMAIN f) \ {k} |-> f[x]]

NoFile == [x \in {} |-> <<>>]

IndexToken(k) == <<"_1", "_2", "_3", "_4">>[k]

\* os.path.join(output_dir, f"{output_image_prefix}_{i + 1}.png"), k = i + 1
ImagePath(prefix, k) == Join(prefix, prefix \o <<IndexToken(k), ".png">>)

(***************************************************************************)
(* generate_waveform, lines 60-112                                         *)
(***************************************************************************)
NoLocals ==
    /\ y = <<>> /\ step = 0 /\ y_downsampled = <<>> /\ y_normalized = <<>>
    /\ quarters = <<>> /\ i = 0 /\ written = <<>>

\* lines 63-66: create the directory named by the prefix if it is absent
GwMakeDirs ==
    /\ pc = "gw_start"
    /\ dirs' = IF Exists(output_image_prefix) THEN dirs
               ELSE dirs \cup {output_image_prefix}
    /\ pc' = "gw_load"
    /\ UNCHANGED <<err, mainVars, audio, thumbs, images, gwVars>>

\* lines 69-73: load the samples; a missing file makes librosa.load raise,
\* an empty buffer raises ValueError
GwLoad ==
    /\ pc = "gw_load"
    /\ IF audio_file \notin DOMAIN audio
       THEN /\ pc' = "exit" /\ err' = "FileNotFoundError" /\ y' = y
       ELSE /\ y' = audio[audio_file]
            /\ IF Len(audio[audio_file]) = 0
               THEN pc' = "exit" /\ err' = "ValueError"
               ELSE pc' = "gw_compute" /\ err' = err
    /\ UNCHANGED <<mainVars, fsVars, audio_file, output_image_prefix, num_lines,
                   step, y_downsampled, y_normalized, quarters, i, written>>

\* lines 76-89: stride, decimation, normalisation, the four slices
GwCompute ==
    /\ pc = "gw_compute"
    /\ step' = Step(Len(y), num_lines)
    /\ y_downsampled' = SliceStep(y, step')
    /\ y_normalized' = Normalize(y_downsampled')
    /\ quarters' = Quarters(y_normalized')
    /\ i' = 0
    /\ pc' = "gw_loop"
    /\ UNCHANGED <<err, mainVars, fsVars, audio_file, output_image_prefix,
                   num_lines, y, written>>

\* lines 92-112: one iteration of the loop over the quarters
GwRenderQuarter ==
    /\ pc = "gw_loop"
    /\ i < Len(quarters)
    /\ LET quarter == quarters[i + 1]
           output_image == ImagePath(output_image_prefix, i + 1)
       IN IF LineSpacingRaises(Len(quarter))
          THEN /\ pc' = "exit" /\ err' = "ZeroDivisionError"
               /\ UNCHANGED <<images, i, written>>
          ELSE /\ images' = Put(images, output_image,
                                 [bars |-> Len(quarter),
                                  line_spacing |-> LineSpacing(DefaultTotalWidth,
                                                               Len(quarter))])
               /\ written' = Append(written, output_image)
               /\ i' = i + 1
               /\ pc' = IF i + 1 = Len(quarters) THEN "gw_return" ELSE "gw_loop"
               /\ err' = err
    /\ UNCHANGED <<mainVars, audio, dirs, thumbs, audio_file, output_image_prefix,
                   num_lines, y, step, y_downsampled, y_normalized, quarters>>

(***************************************************************************)
(* The renderer alone: one call of generate_waveform on a decoded buffer   *)
(***************************************************************************)
RECURSIVE SeqsOf(_, _)
SeqsOf(S, n) ==
    IF n = 0 THEN {<<>>}
    ELSE LET shorter == SeqsOf(S, n - 1)
         IN shorter \cup {Append(s, x) : s \in {t \in shorter : Len(t) = n - 1}, x \in S}

\* a long non-silent buffer of n samples
Pattern(n) == [j \in 1..n |-> IF j % 3 = 1 THEN 1 ELSE IF j % 3 = 2 THEN 0 ELSE -2]

Buffers == SeqsOf(Samples, MaxLen) \cup {Pattern(n) : n \in ExampleLens}

RenderPath == <<"a", ".wav">>
RenderPrefix == <<"waveform">>

InitRender ==
    /\ pc = "gw_start" /\ err = "none"
    /\ run = 1 /\ argv = <<>> /\ video_id = [isNone |-> TRUE, val |-> <<>>]
    /\ \E buf \in Buffers : audio \in {NoFile, Put(NoFile, RenderPath, buf)}
    /\ dirs \in {{}, {RenderPrefix}}
    /\ thumbs = {} /\ images = NoFile
    /\ fs0 = <<audio, dirs, thumbs, images>>
    /\ startHad = FALSE
    /\ dlCalls = 0 /\ dlWrote = <<>> /\ dlReturn = <<>> /\ gwCalls = 1
    /\ audio_file = RenderPath
    /\ output_image_prefix = RenderPrefix
    /\ num_lines \in (1..MaxT) \cup {DefaultNumLines}
    /\ NoLocals

NextRender == GwMakeDirs \/ GwLoad \/ GwCompute \/ GwRenderQuarter

SpecRender == InitRender /\ [][NextRender]_vars

(***************************************************************************)
(* URLs: urlparse, parse_qs, is_valid_youtube_url, get_video_id            *)
(***************************************************************************)
None == [isNone |-> TRUE, val |-> <<>>]

Some(v) == [isNone |-> FALSE, val |-> v]

\* Python truth value of an optional string: None and "" are false
Truthy(o) == ~o.isNone /\ o.val # <<>>

\* urllib.parse.urlparse(url): netloc only after a scheme's "//", up to the
\* first "/" or "?"; the path up to the first "?"; the query after it
UrlParse(url) ==
    LET hasScheme == Len(url) > 0 /\ url[1] = "https://"
        rest == IF hasScheme THEN Tail(url) ELSE url
        k == Find(rest, {"/", "?"})
        netloc == IF ~hasScheme THEN <<>>
                  ELSE IF k = 0 THEN rest ELSE SubSeq(rest, 1, k - 1)
        after == IF ~hasScheme THEN rest
                 ELSE IF k = 0 THEN <<>> ELSE SubSeq(rest, k, Len(rest))
        q == Find(after, {"?"})
    IN [netloc |-> netloc,
        path |-> IF q = 0 THEN after ELSE SubSeq(after, 1, q - 1),
        query |-> IF q = 0 THEN <<>> ELSE SubSeq(after, q + 1, Len(after))]

\* parse_qs(query).get(name, [None])[0]: the fields are split on "&", each on
\* its first "="; a field without "=" or with a blank value is dropped
RECURSIVE FirstValue(_, _)
FirstValue(fields, name) ==
    IF Len(fields) = 0 THEN None
    ELSE LET f == fields[1]
             e == Find(f, {"="})
         IN IF e # 0 /\ e < Len(f) /\ SubSeq(f, 1, e - 1) = name
            THEN Some(SubSeq(f, e + 1, Len(f)))
            ELSE FirstValue(Tail(fields), name)

ParseQsGet(query, name) == FirstValue(SplitAmp(query), name)

\* is_valid_youtube_url, lines 114-116
IsValidYoutubeUrl(url) ==
    \/ Contains(url, <<"youtube.com", "/", "watch">>)
    \/ Contains(url, <<"youtu.be", "/">>)

\* get_video_id, lines 10-17
GetVideoId(url) ==
    LET parsed_url == UrlParse(url)
    IN IF Contains(parsed_url.netloc, <<"youtube.com">>)
       THEN ParseQsGet(parsed_url.query, <<"v">>)
       ELSE IF Contains(parsed_url.netloc, <<"youtu.be">>)
       THEN Some(LStripSlash(parsed_url.path))
       ELSE None

(***************************************************************************)
(* main, lines 118-148, and download_audio, lines 19-58                    *)
(***************************************************************************)
\* main: audio_file = f"{video_id}.wav"
MainAudioFile == video_id.val \o <<".wav">>

\* main: waveform_image_prefix = f"{video_id}_waveform"
MainPrefix == video_id.val \o <<"_waveform">>

\* download_audio is called with output_dir = video_id, output_file = audio_file
OutputDir == video_id.val

OutputPath == Join(OutputDir, MainAudioFile)

OutputTemplate == Join(OutputDir, <<"%(title)s", ".%(ext)s">>)

DownloadedAudioPath == SplitExtRoot(OutputTemplate) \o <<".wav">>

ThumbnailPath == SplitExtRoot(OutputTemplate) \o <<".webp">>

\* os.makedirs(p): p and every leading directory of p
MakeDirs(p) ==
    {SubSeq(p, 1, k) : k \in {n \in 1..Len(p) : p[n] # "/" /\ (n = Len(p) \/ p[n + 1] = "/")}}

\* the exit status of the process: sys.exit(1) and an uncaught exception give 1
ExitCode == IF err = "none" THEN 0 ELSE 1

\* lines 120-124
MainCheckArgs ==
    /\ pc = "main"
    /\ IF Len(argv) # 1
       THEN pc' = "exit" /\ err' = "SystemExit"
       ELSE pc' = "validate" /\ err' = err
    /\ UNCHANGED <<mainVars, fsVars, gwVars>>

\* mutant: the URL's shape is not checked
MainValidateSkipped ==
    /\ pc = "validate"
    /\ pc' = "get_id"
    /\ UNCHANGED <<err, mainVars, fsVars, gwVars>>

\* lines 127-129
MainValidate ==
    /\ pc = "validate"
    /\ IF ~IsValidYoutubeUrl(argv[1])
       THEN pc' = "exit" /\ err' = "SystemExit"
       ELSE pc' = "get_id" /\ err' = err
    /\ UNCHANGED <<mainVars, fsVars, gwVars>>

\* lines 132-135
MainGetId ==
    /\ pc = "get_id"
    /\ video_id' = GetVideoId(argv[1])
    /\ IF ~Truthy(video_id')
       THEN pc' = "exit" /\ err' = "SystemExit"
       ELSE pc' = "check_exists" /\ err' = err
    /\ UNCHANGED <<run, argv, fs0, startHad, dlCalls, dlWrote, dlReturn, gwCalls,
                   fsVars, gwVars>>

\* mutant: the audio is downloaded whether or not the file is there
MainCheckExistsAlwaysDownload ==
    /\ pc = "check_exists"
    /\ pc' = "dl_start"
    /\ UNCHANGED <<err, mainVars, fsVars, gwVars>>

\* lines 141-145
MainCheckExists ==
    /\ pc = "check_exists"
    /\ pc' = IF ~Exists(MainAudioFile) THEN "dl_start" ELSE "call_gw"
    /\ UNCHANGED <<err, mainVars, fsVars, gwVars>>

\* download_audio, lines 22-24
DlMakeDirs ==
    /\ pc = "dl_start"
    /\ dirs' = IF Exists(OutputDir) THEN dirs ELSE dirs \cup MakeDirs(OutputDir)
    /\ pc' = "dl_run"
    /\ UNCHANGED <<err, mainVars, audio, thumbs, images, gwVars>>

Titles == {"Song", "%(title)s"}

Loud == <<1, -2, 0, 1, 1, 0, -2, 1>>
Silent == <<0, 0, 0, 0, 0, 0, 0, 0>>
MainBuffers == {Loud, Silent, <<1>>}

\* what one run of the downloader can do: fail, or exit 0 having filled the
\* template's %(title)s and %(ext)s (audio as .wav, thumbnail as .webp) or
\* having written no audio
DownloaderOutcomes ==
    {[ok |-> FALSE, wav |-> FALSE, title |-> "Song", buf |-> <<>>, thumb |-> FALSE]}
    \cup [ok : {TRUE}, wav : {FALSE}, title : {"Song"}, buf : {<<>>}, thumb : {FALSE}]
    \cup [ok : {TRUE}, wav : {TRUE}, title : Titles, buf : MainBuffers, thumb : BOOLEAN]

\* download_audio, lines 33-41: subprocess.run(command, check=True)
DlRun ==
    /\ pc = "dl_run"
    /\ \E o \in DownloaderOutcomes :
        LET wavPath == Join(OutputDir, <<o.title, ".wav">>)
            webpPath == Join(OutputDir, <<o.title, ".webp">>)
        IN /\ dlCalls' = dlCalls + 1
           /\ IF ~o.ok
              THEN /\ pc' = "exit" /\ err' = "CalledProcessError"
                   /\ UNCHANGED <<audio, thumbs, dlWrote>>
              ELSE /\ pc' = "dl_rename" /\ err' = err
                   /\ audio' = IF o.wav THEN Put(audio, wavPath, o.buf) ELSE audio
                   /\ dlWrote' = IF o.wav THEN wavPath ELSE <<>>
                   /\ thumbs' = IF o.thumb THEN thumbs \cup {webpPath} ELSE thumbs
    /\ UNCHANGED <<run, argv, video_id, fs0, startHad, dlReturn, gwCalls, dirs,
                   images, gwVars>>

\* download_audio, lines 44-47
DlRename ==
    /\ pc = "dl_rename"
    /\ audio' = IF Exists(DownloadedAudioPath) /\ DownloadedAudioPath \in DOMAIN audio
                THEN Put(Remove(audio, DownloadedAudioPath), OutputPath,
                         audio[DownloadedAudioPath])
                ELSE audio
    /\ pc' = "dl_return"
    /\ UNCHANGED <<err, mainVars, dirs, thumbs, images, gwVars>>

\* download_audio, lines 50-58: the thumbnail is only reported; the paths are returned
DlReturn ==
    /\ pc = "dl_return"
    /\ dlReturn' = OutputPath
    /\ pc' = "call_gw"
    /\ UNCHANGED <<err, run, argv, video_id, fs0, startHad, dlCalls, dlWrote, gwCalls,
                   fsVars, gwVars>>

\* line 148: generate_waveform(audio_file, waveform_image_prefix)
MainCallRenderer ==
    /\ pc = "call_gw"
    /\ gwCalls' = gwCalls + 1
    /\ audio_file' = MainAudioFile
    /\ output_image_prefix' = MainPrefix
    /\ num_lines' = DefaultNumLines
    /\ pc' = "gw_start"
    /\ UNCHANGED <<err, run, argv, video_id, fs0, startHad, dlCalls, dlWrote,
                   dlReturn, fsVars, y, step, y_downsampled, y_normalized,
                   quarters, i, written>>

\* main returns after generate_waveform returned
MainReturn ==
    /\ pc = "gw_return"
    /\ pc' = "done"
    /\ UNCHANGED <<err, mainVars, fsVars, gwVars>>

(***************************************************************************)
(* Runs of the program                                                     *)
(***************************************************************************)
Schemes == {<<>>, <<"https://">>}
Hosts == {<<"youtu.be">>, <<"youtube.com">>, <<"www.", "youtube.com">>, <<"example.com">>}
UrlPaths == {<<>>, <<"/">>, <<"/", "a">>, <<"/", "a", "/", "b">>, <<"/", "watch">>,
             <<"/", "youtu.be", "/">>}
Queries == {<<>>, <<"?", "v", "=">>, <<"?", "v", "=", "a">>,
            <<"?", "t", "=", "b", "&", "v", "=", "/", "a">>}

Urls == {s \o h \o p \o q : s \in Schemes, h \in Hosts, p \in UrlPaths, q \in Queries}

RerunUrls == {<<"https://", "youtu.be", "/", "a">>,
              <<"https://", "youtube.com", "/", "watch", "?", "v", "=", "a">>}

Argvs == {<<>>} \cup {<<u>> : u \in Urls} \cup {<<u, u>> : u \in RerunUrls}

\* would main find <video_id>.wav for these arguments in the current file system
HasAudioFor(args) ==
    /\ Len(args) = 1
    /\ Truthy(GetVideoId(args[1]))
    /\ Exists(GetVideoId(args[1]).val \o <<".wav">>)

InitFiles ==
    {[audio |-> NoFile, dirs |-> {}]}
    \cup {[audio |-> Put(NoFile, <<"a", ".wav">>, b), dirs |-> {}] : b \in MainBuffers}
    \cup {[audio |-> Put(NoFile, <<"a", "/", "a", ".wav">>, b), dirs |-> {<<"a">>}] :
            b \in MainBuffers}

Init ==
    /\ pc = "main" /\ err = "none" /\ run = 1
    /\ argv \in Argvs
    /\ video_id = None
    /\ \E f \in InitFiles : audio = f.audio /\ dirs = f.dirs
    /\ thumbs = {} /\ images = NoFile
    /\ fs0 = <<audio, dirs, thumbs, images>>
    /\ startHad = HasAudioFor(argv)
    /\ dlCalls = 0 /\ dlWrote = <<>> /\ dlReturn = <<>> /\ gwCalls = 0
    /\ audio_file = <<>> /\ output_image_prefix = <<>> /\ num_lines = DefaultNumLines
    /\ NoLocals

\* the program is run again, on the file system the last run left
NewRun ==
    /\ pc \in {"exit", "done"}
    /\ run < MaxRuns
    /\ run' = run + 1
    /\ argv' \in {argv} \cup {<<u>> : u \in RerunUrls}
    /\ pc' = "main" /\ err' = "none" /\ video_id' = None
    /\ fs0' = <<audio, dirs, thumbs, images>>
    /\ startHad' = HasAudioFor(argv')
    /\ dlCalls' = 0 /\ dlWrote' = <<>> /\ dlReturn' = <<>> /\ gwCalls' = 0
    /\ audio_file' = <<>> /\ output_image_prefix' = <<>> /\ num_lines' = DefaultNumLines
    /\ y' = <<>> /\ step' = 0 /\ y_downsampled' = <<>> /\ y_normalized' = <<>>
    /\ quarters' = <<>> /\ i' = 0 /\ written' = <<>>
    /\ UNCHANGED fsVars

Next ==
    \/ MainCheckArgs \/ MainValidate \/ MainGetId \/ MainCheckExists
    \/ DlMakeDirs \/ DlRun \/ DlRename \/ DlReturn
    \/ MainCallRenderer
    \/ GwMakeDirs \/ GwLoad \/ GwCompute \/ GwRenderQuarter
    \/ MainReturn
    \/ NewRun

Spec == Init /\ [][Next]_vars

(***************************************************************************)
(* Properties of the renderer (checked under SpecRender)                   *)
(***************************************************************************)
\* lines 76-89 have run in this call: y is non-empty, so y_downsampled is too
Computed == Len(y_downsampled) > 0

AllZero(s) == \A j \in 1..Len(s) : s[j] = 0

FourImages == [k \in 1..4 |-> ImagePath(output_image_prefix, k)]

\* C1: a call on a non-empty buffer whose retained samples are not all zero
\* never raises, and when it returns it has saved exactly the four images
\* <prefix>/<prefix>_1.png .. _4.png, in index order.
C1_FourImagesAlways ==
    (Computed /\ ~AllZero(y_downsampled)) =>
        /\ err = "none"
        /\ written = SubSeq(FourImages, 1, i)
        /\ (pc = "gw_return" =>
                /\ written = FourImages
                /\ DOMAIN images = {FourImages[k] : k \in 1..4})

\* C2: the four quarters are the slices [0,q), [q,2q), [2q,3q), [3q,L) of the
\* normalized sequence, q = L div 4: in order they concatenate to the whole
\* sequence, the first three have q elements, the last has L - 3q = q + L mod 4,
\* and L = 10 gives the lengths 2,2,2,4.
C2_Partition ==
    Computed =>
        LET L == Len(y_normalized)
            q == L \div 4
        IN /\ Len(quarters) = 4
           /\ quarters[1] \o quarters[2] \o quarters[3] \o quarters[4] = y_normalized
           /\ \A k \in 1..3 : Len(quarters[k]) = q
           /\ Len(quarters[4]) = L - 3 * q
           /\ Len(quarters[4]) - q = L % 4
           /\ Len(quarters[4]) - q <= 3
           /\ \A k \in 1..4 : \A j \in 1..Len(quarters[k]) :
                quarters[k][j] = y_normalized[(k - 1) * q + j]
           /\ (L = 10 => [k \in 1..4 |-> Len(quarters[k])] = <<2, 2, 2, 4>>)

\* a buffer whose length is not a multiple of four has been split
C2_Witness ==
    /\ pc = "gw_return"
    /\ Len(y_normalized) = 10
    /\ Len(quarters[4]) = 4

\* C3: the stride is max(1, floor(n / T)); the downsampled sequence holds
\* exactly the samples at the 0-based indices 0, stride, 2*stride, ... below n,
\* in order (so its length is ceil(n / stride)); n = 2400 and T = 600 give
\* stride 4, 600 points and four quarters of 150.
C3_Downsample ==
    Computed =>
        LET n == Len(y)
            T == num_lines
            d == y_downsampled
        IN /\ step >= 1
           /\ (n < T => step = 1)
           /\ (n >= T => step * T <= n /\ n < (step + 1) * T)
           /\ (Len(d) - 1) * step < n
           /\ Len(d) * step >= n
           /\ \A k \in 0..(Len(d) - 1) : d[k + 1] = y[k * step + 1]
           /\ ((n = 2400 /\ T = 600) =>
                /\ step = 4
                /\ Len(d) = 600
                /\ \A k \in 1..4 : Len(quarters[k]) = 150)

\* a buffer longer than the target count has been decimated
C3_Witness ==
    /\ Computed
    /\ Len(y) = 2400 /\ num_lines = 600
    /\ step = 4 /\ Len(y_downsampled) = 600

\* C4: when the downsampled sequence is all zero the call ends in ValueError
\* before any value is divided, and no image is written.
C4_SilenceIsAnError ==
    (Computed /\ AllZero(y_downsampled)) =>
        /\ pc = "exit" /\ err = "ValueError"
        /\ y_normalized = <<>>
        /\ written = <<>>

InDownload == pc \in {"dl_start", "dl_run", "dl_rename", "dl_return"}

InRenderer == pc \in {"gw_start", "gw_load", "gw_compute", "gw_loop", "gw_return"}

FileSystem == <<audio, dirs, thumbs, images>>

\* C6: when download_audio returns after a successful download that wrote
\* <output_dir>/<title>.wav, the audio is at the returned path and no longer
\* under the title's name.
C6_RenamedToCanonical ==
    (pc = "call_gw" /\ dlReturn # <<>> /\ dlWrote # <<>>) =>
        /\ dlReturn \in DOMAIN audio
        /\ dlWrote \notin DOMAIN audio

\* the three checks main makes before it acquires or renders anything
ChecksPass ==
    /\ Len(argv) = 1
    /\ IsValidYoutubeUrl(argv[1])
    /\ Truthy(GetVideoId(argv[1]))

\* C7: the downloader and the renderer run only after the argument count, the
\* URL shape and the identifier checks all passed; a run in which one of them
\* fails ends with exit code 1 by sys.exit, with the file system as it was
\* at the start, no subprocess started and the renderer not called.
C7_ChecksFirst ==
    /\ (InDownload \/ InRenderer \/ pc \in {"check_exists", "call_gw", "done"}
            \/ dlCalls > 0 \/ gwCalls > 0) => ChecksPass
    /\ (pc \in {"exit", "done"} /\ ~ChecksPass) =>
            /\ pc = "exit" /\ err = "SystemExit" /\ ExitCode = 1
            /\ FileSystem = fs0
            /\ dlCalls = 0 /\ gwCalls = 0

\* a URL that passes the shape check without carrying an identifier was rejected
C7_Witness ==
    /\ pc = "exit" /\ err = "SystemExit"
    /\ Len(argv) = 1 /\ IsValidYoutubeUrl(argv[1]) /\ ~Truthy(GetVideoId(argv[1]))
    /\ FileSystem = fs0 /\ dlCalls = 0 /\ gwCalls = 0

\* C8: a run that starts with <video_id>.wav present never enters
\* download_audio and starts no subprocess, and when it renders it renders
\* that file; this holds in particular for a second run.
C8_CachedSkipsDownload ==
    startHad =>
        /\ ~InDownload
        /\ dlCalls = 0 /\ dlWrote = <<>> /\ dlReturn = <<>>
        /\ (gwCalls > 0 => audio_file = GetVideoId(argv[1]).val \o <<".wav">>)
        /\ (ChecksPass /\ pc \in {"exit", "done"} => gwCalls = 1)

\* a second run found the file that the first run's download left, and rendered it
C8_Witness ==
    /\ run = 2 /\ startHad /\ pc = "done"
    /\ gwCalls = 1 /\ dlCalls = 0
    /\ audio_file = <<"/", "a", ".wav">>

\* C9: for a youtu.be URL with a non-empty path, get_video_id returns the
\* first path segment without its leading slash, a string with no "/".
C9_FirstSegment ==
    (pc \notin {"main", "validate", "get_id"} /\ Len(argv) = 1) =>
        LET parsed_url == UrlParse(argv[1])
            path == parsed_url.path
        IN (parsed_url.netloc = <<"youtu.be">> /\ path # <<>>) =>
            /\ ~video_id.isNone
            /\ \A k \in 1..Len(video_id.val) : video_id.val[k] # "/"
            /\ \E rest \in {SubSeq(path, k, Len(path)) : k \in 1..(Len(path) + 1)} :
                /\ path = <<"/">> \o video_id.val \o rest
                /\ (rest = <<>> \/ rest[1] = "/")

\* C10: after an acquisition that succeeded (the downloader exited 0 and wrote
\* the audio) the renderer is called with the path that download_audio returned.
C10_RendersDownloadedPath ==
    (gwCalls > 0 /\ dlWrote # <<>> /\ dlReturn # <<>>) => audio_file = dlReturn

====
